---- MODULE Spec2Model ----
(***************************************************************************)
(* Model of legal_module/filing.py: LegalDocumentGenerator (the document   *)
(* assembler) and create_legal_filing (the filing orchestrator).           *)
(*                                                                         *)
(* String literals of the source are CJK text, which the TLA+ lexer does   *)
(* not accept inside strings; each literal is written here in an ASCII     *)
(* transliteration, one distinct ASCII string per distinct source literal: *)
(*   "起訴狀"     -> "QiSuZhuang"      "案號："   -> "AnHao:"               *)
(*   "當事人："   -> "DangShiRen:"     "法院："   -> "FaYuan:"              *)
(*   "訴之聲明"   -> "SuZhiShengMing"  "事實與理由" -> "ShiShiYuLiYou"      *)
(*   "法律依據"   -> "FaLvYiJu"        "證據目錄" -> "ZhengJuMuLu"          *)
(*   "附件"       -> "FuJian"          "、"       -> ","                    *)
(*   "• "         -> "* "              "【" "】"  -> "[" "]"                *)
(*   壹 貳 參 肆 伍 陸 柒 捌 玖 拾 -> Yi Er San Si Wu Liu Qi Ba Jiu Shi     *)
(* Document text is a TLA+ string; a file path is a sequence of one-       *)
(* character strings, so that str.rsplit can be computed on it.            *)
(***************************************************************************)
EXTENDS Integers, Sequences, FiniteSets, TLC

VARIABLES
    case_info,      \* the CaseInfo mapping passed by the caller
    output_path,    \* the output_path argument
    export_pdf,     \* the export_pdf keyword argument
    Document,       \* FALSE iff the module global Document is None
    docx2pdf_convert, \* FALSE iff the module global docx2pdf_convert is None
    pc,             \* position inside create_legal_filing
    doc,            \* generator.doc: the ordered blocks of the draft
    disk,           \* files written to storage: path -> saved blocks / pdf
    convert_calls,  \* argument pairs with which the converter was invoked
    trace,          \* the steps executed so far, with their outcome
    result,         \* the value returned to the caller
    error           \* the exception that reached the caller

vars == <<case_info, output_path, export_pdf, Document, docx2pdf_convert,
          pc, doc, disk, convert_calls, trace, result, error>>

----------------------------------------------------------------------------
(* Bounds of the explored inputs.                                          *)

MaxLaws == 2
MaxEvidence == 2
MaxPathLen == 4

----------------------------------------------------------------------------
(* Python helpers.                                                         *)

\* dict.get(key, default)
Get(ci, key, default) == IF key \in DOMAIN ci THEN ci[key] ELSE default

\* dict.get(key): None when the key is absent; None is modelled by the
\* falsy empty string, the only way build() looks at it.
GetOrNone(ci, key) == Get(ci, key, "")

\* Python truthiness of a str (or None)
Truthy(s) == s # ""

\* a or b
Or(a, b) == IF Truthy(a) THEN a ELSE b

Heading(text, level) == [kind |-> "heading", level |-> level, text |-> text]
Paragraph(text) == [kind |-> "paragraph", text |-> text]

----------------------------------------------------------------------------
(* Module constants.                                                       *)

\* CHINESE_NUMERALS
CHINESE_NUMERALS ==
    (1 :> "Yi") @@ (2 :> "Er") @@ (3 :> "San") @@ (4 :> "Si") @@ (5 :> "Wu") @@
    (6 :> "Liu") @@ (7 :> "Qi") @@ (8 :> "Ba") @@ (9 :> "Jiu") @@ (10 :> "Shi")

\* FilingType.COMPLAINT.value
COMPLAINT == "QiSuZhuang"

----------------------------------------------------------------------------
(* LegalDocumentGenerator.build and its helper.  The draft only grows: each *)
(* operator yields the blocks it appends, in order, and whether it ran to  *)
(* its end (ok) or raised part-way (the blocks appended before the raise    *)
(* stay in the draft).                                                     *)

BuildTitle_TitleFirst(ci) ==
    LET title == Or(GetOrNone(ci, "title"), GetOrNone(ci, "filing_type"))
    IN  IF ~Truthy(title) THEN COMPLAINT ELSE title

\* build(), lines 89-91: the text of the level-1 heading
BuildTitle(ci) ==
    LET title == Or(GetOrNone(ci, "filing_type"), GetOrNone(ci, "title"))
    IN  IF ~Truthy(title) THEN COMPLAINT ELSE title

AddBasicInfo_Swapped(ci) ==
    << Paragraph("AnHao:" \o Get(ci, "case_number", "")),
       Paragraph("FaYuan:" \o Get(ci, "court", "")),
       Paragraph("DangShiRen:" \o Get(ci, "parties", "")) >>

\* _add_basic_info()
AddBasicInfo(ci) ==
    << Paragraph("AnHao:" \o Get(ci, "case_number", "")),
       Paragraph("DangShiRen:" \o Get(ci, "parties", "")),
       Paragraph("FaYuan:" \o Get(ci, "court", "")) >>

\* the list enumerated by build(), lines 95-100
Sections(ci) ==
    << <<"SuZhiShengMing", Get(ci, "claims", "")>>,
       <<"ShiShiYuLiYou", Get(ci, "facts", "")>>,
       <<"FaLvYiJu", Get(ci, "laws", <<>>)>>,
       <<"ZhengJuMuLu", Get(ci, "evidence", <<>>)>> >>

SectionLabel_Arabic(idx, name) == ToString(idx) \o "," \o name

\* build(), line 103
SectionLabel(idx, name) ==
    (IF idx \in DOMAIN CHINESE_NUMERALS THEN CHINESE_NUMERALS[idx]
                                        ELSE ToString(idx)) \o "," \o name

RenderLaws_Reversed(laws) ==
    [i \in 1..Len(laws) |-> Paragraph("* " \o laws[Len(laws) + 1 - i])]

\* build(), lines 106-107
RenderLaws(laws) == [i \in 1..Len(laws) |-> Paragraph("* " \o laws[i])]

RECURSIVE RenderEvidence_SkipsLast(_)
RenderEvidence_SkipsLast(evidence) ==
    IF Len(evidence) <= 1
    THEN [blocks |-> <<>>, ok |-> TRUE]
    ELSE LET ev == Head(evidence) IN
         IF ~({"id", "summary"} \subseteq DOMAIN ev)
         THEN [blocks |-> <<>>, ok |-> FALSE]
         ELSE LET rest == RenderEvidence_SkipsLast(Tail(evidence)) IN
              [blocks |-> <<Paragraph("[" \o ev["id"] \o "]" \o ev["summary"])>>
                            \o rest.blocks,
               ok |-> rest.ok]

\* build(), lines 109-110; ev['id'] or ev['summary'] raises KeyError on an
\* entry lacking the key, before that entry's paragraph is added
RECURSIVE RenderEvidence(_)
RenderEvidence(evidence) ==
    IF evidence = <<>>
    THEN [blocks |-> <<>>, ok |-> TRUE]
    ELSE LET ev == Head(evidence) IN
         IF ~({"id", "summary"} \subseteq DOMAIN ev)
         THEN [blocks |-> <<>>, ok |-> FALSE]
         ELSE LET rest == RenderEvidence(Tail(evidence)) IN
              [blocks |-> <<Paragraph("[" \o ev["id"] \o "]" \o ev["summary"])>>
                            \o rest.blocks,
               ok |-> rest.ok]

\* build(), lines 103-112: one pass of the loop body
SectionBlocks(idx, section) ==
    LET label == <<Paragraph(SectionLabel(idx, section[1]))>> IN
    IF section[1] = "FaLvYiJu"
    THEN [blocks |-> label \o RenderLaws(section[2]), ok |-> TRUE]
    ELSE IF section[1] = "ZhengJuMuLu"
    THEN LET r == RenderEvidence(section[2]) IN
         [blocks |-> label \o r.blocks, ok |-> r.ok]
    ELSE [blocks |-> label \o <<Paragraph(section[2])>>, ok |-> TRUE]

\* build(), lines 94-112: the loop over enumerate(sections, start=idx)
RECURSIVE BuildSections(_, _)
BuildSections(sections, idx) ==
    IF sections = <<>>
    THEN [blocks |-> <<>>, ok |-> TRUE]
    ELSE LET first == SectionBlocks(idx, Head(sections)) IN
         IF ~first.ok
         THEN first
         ELSE LET rest == BuildSections(Tail(sections), idx + 1) IN
              [blocks |-> first.blocks \o rest.blocks, ok |-> rest.ok]

\* build()
build(ci) ==
    LET body == BuildSections(Sections(ci), 1) IN
    [blocks |-> <<Heading(BuildTitle(ci), 1)>> \o AddBasicInfo(ci) \o body.blocks,
     ok |-> body.ok]

----------------------------------------------------------------------------
(* create_legal_filing: the path of the exported PDF.                      *)

\* the index of the last "." of path, 0 when it has none
LastDot(path) ==
    LET dots == {i \in 1..Len(path) : path[i] = "."} IN
    IF dots = {} THEN 0 ELSE CHOOSE i \in dots : \A j \in dots : j <= i

\* str.rsplit(".", 1)[0]
RsplitDotHead(path) ==
    IF LastDot(path) = 0 THEN path ELSE SubSeq(path, 1, LastDot(path) - 1)

\* create_legal_filing, line 152
PdfPath(path) == RsplitDotHead(path) \o <<".", "p", "d", "f">>

----------------------------------------------------------------------------
(* The state after the call is made and before its first statement.        *)

NoResult == [kind |-> "none"]
NoError == "none"

\* values of the str fields of CaseInfo
Opt(key, values) == {<<>>} \cup {key :> v : v \in values}

SeqsUpTo(S, n) == UNION {[1..k -> S] : k \in 0..n}

Laws == {"law184", "law17"}

\* EvidenceEntry values, and one mapping that lacks the "id" key
EvidenceEntries ==
    { [id |-> "B1", summary |-> "chat"], [id |-> "B2", summary |-> "receipt"] }
MalformedEntries == { [summary |-> "chat"] }

AttachmentLists ==
    { <<>>, <<[id |-> "A1", description |-> "contract"]>>,
      <<[id |-> "A1", description |-> "contract"],
        [id |-> "A2", description |-> "invoice"]>> }

\* records varying the heading and basic-info fields
HeadInfos ==
    { a @@ b @@ c @@ d @@ e :
        a \in Opt("filing_type", {"", "DaBianZhuang"}),
        b \in Opt("title", {"", "MyTitle"}),
        c \in Opt("case_number", {"114-1234"}),
        d \in Opt("parties", {"A v. B"}),
        e \in Opt("court", {"Taipei"}) }

\* records varying the section fields
BodyInfos ==
    { a @@ b @@ c @@ d @@ e :
        a \in Opt("claims", {"pay"}),
        b \in Opt("facts", {"never delivered"}),
        c \in Opt("laws", SeqsUpTo(Laws, MaxLaws)),
        d \in Opt("evidence", SeqsUpTo(EvidenceEntries \cup MalformedEntries, MaxEvidence)),
        e \in Opt("attachments", AttachmentLists) }

\* example.py, sample_case (shortened texts)
sample_case ==
    [case_number |-> "114-1234", parties |-> "A v. B", court |-> "Taipei",
     claims |-> "pay", facts |-> "never delivered",
     laws |-> <<"law184", "law17">>,
     evidence |-> <<[id |-> "B1", summary |-> "chat"],
                    [id |-> "B2", summary |-> "receipt"]>>]

SampleInfos == { <<>>, sample_case, [evidence |-> <<[summary |-> "chat"]>>] }

PathChars == {"a", ".", "/"}
Paths == UNION {[1..k -> PathChars] : k \in 1..MaxPathLen}

\* the default of the output_path parameter (line 127): a file name without
\* directory part, ending in ".docx"
DefaultPath == <<"a", ".", "d", "o", "c", "x">>

InitCommon ==
    /\ pc = "start"
    /\ doc = <<>>
    /\ disk = <<>>
    /\ convert_calls = <<>>
    /\ trace = <<>>
    /\ result = NoResult
    /\ error = NoError

InitRecords ==
    /\ case_info \in HeadInfos \cup BodyInfos
    /\ output_path = DefaultPath
    /\ export_pdf \in BOOLEAN
    /\ Document = TRUE
    /\ docx2pdf_convert \in BOOLEAN

InitPaths ==
    /\ case_info \in SampleInfos
    /\ output_path \in Paths
    /\ export_pdf \in BOOLEAN
    /\ Document \in BOOLEAN
    /\ docx2pdf_convert \in BOOLEAN

Init == InitCommon /\ (InitRecords \/ InitPaths)

----------------------------------------------------------------------------
(* create_legal_filing, statement by statement.  An exception is never     *)
(* caught: the statement that raises ends the call (pc = "raised").        *)

Step(name, outcome) == trace' = Append(trace, <<name, outcome>>)

Raise(exc) ==
    /\ error' = exc
    /\ pc' = "raised"
    /\ UNCHANGED result

DocxFile(blocks) == [kind |-> "docx", blocks |-> blocks]
PdfFile(source) == [kind |-> "pdf", source |-> source]

\* line 143, __init__ with Document available: an empty draft
Construct ==
    /\ pc = "start"
    /\ Document
    /\ doc' = <<>>
    /\ pc' = "constructed"
    /\ Step("construct", "ok")
    /\ UNCHANGED <<case_info, output_path, export_pdf, Document,
                   docx2pdf_convert, disk, convert_calls, result, error>>

\* line 143, __init__ lines 72-75: Document is None
ConstructRaises ==
    /\ pc = "start"
    /\ ~Document
    /\ Raise("RuntimeError: python-docx is required")
    /\ Step("construct", "raise")
    /\ UNCHANGED <<case_info, output_path, export_pdf, Document,
                   docx2pdf_convert, doc, disk, convert_calls>>

\* line 144: generator.build()
Build ==
    /\ pc = "constructed"
    /\ LET r == build(case_info) IN
       /\ doc' = doc \o r.blocks
       /\ IF r.ok
          THEN /\ pc' = "built"
               /\ Step("build", "ok")
               /\ UNCHANGED <<result, error>>
          ELSE /\ Raise("KeyError")
               /\ Step("build", "raise")
    /\ UNCHANGED <<case_info, output_path, export_pdf, Document,
                   docx2pdf_convert, disk, convert_calls>>

\* the file name of a path: what follows its last "/"
FileName(path) ==
    LET seps == {i \in 1..Len(path) : path[i] = "/"}
        sep == IF seps = {} THEN 0 ELSE CHOOSE i \in seps : \A j \in seps : j <= i
    IN  SubSeq(path, sep + 1, Len(path))

\* a path that names a directory ("x/", ".", "..") cannot be opened for
\* writing: save() on it raises
NamesDirectory(path) == FileName(path) \in {<<>>, <<".">>, <<".", ".">>}

\* line 145: generator.save(output_path) writes the draft
Save ==
    /\ pc = "built"
    /\ ~NamesDirectory(output_path)
    /\ disk' = (output_path :> DocxFile(doc)) @@ disk
    /\ pc' = "saved"
    /\ Step("save", "ok")
    /\ UNCHANGED <<case_info, output_path, export_pdf, Document,
                   docx2pdf_convert, doc, convert_calls, result, error>>

SaveRaises_Swallowed ==
    /\ pc = "built"
    /\ pc' = "saved"
    /\ Step("save", "raise")
    /\ UNCHANGED <<case_info, output_path, export_pdf, Document,
                   docx2pdf_convert, doc, disk, convert_calls, result, error>>

\* line 145: the document backend cannot write output_path
SaveRaises ==
    /\ pc = "built"
    /\ Raise("OSError")
    /\ Step("save", "raise")
    /\ UNCHANGED <<case_info, output_path, export_pdf, Document,
                   docx2pdf_convert, doc, disk, convert_calls>>

\* lines 147, 156: no export requested
ReturnDocx ==
    /\ pc = "saved"
    /\ ~export_pdf
    /\ result' = [kind |-> "str", value |-> output_path]
    /\ pc' = "returned"
    /\ UNCHANGED <<case_info, output_path, export_pdf, Document,
                   docx2pdf_convert, doc, disk, convert_calls, trace, error>>

ExportPdfMissing_ConvertsAnyway ==
    /\ pc = "saved"
    /\ export_pdf
    /\ ~docx2pdf_convert
    /\ convert_calls' = Append(convert_calls, <<output_path, PdfPath(output_path)>>)
    /\ disk' = (PdfPath(output_path) :> PdfFile(disk[output_path])) @@ disk
    /\ result' = [kind |-> "tuple", value |-> <<output_path, PdfPath(output_path)>>]
    /\ pc' = "returned"
    /\ Step("convert", "ok")
    /\ UNCHANGED <<case_info, output_path, export_pdf, Document,
                   docx2pdf_convert, doc, error>>

\* lines 147-151: docx2pdf_convert is None
ExportPdfMissing ==
    /\ pc = "saved"
    /\ export_pdf
    /\ ~docx2pdf_convert
    /\ Raise("RuntimeError: docx2pdf is required")
    /\ Step("convert", "raise")
    /\ UNCHANGED <<case_info, output_path, export_pdf, Document,
                   docx2pdf_convert, doc, disk, convert_calls>>

\* lines 152-154: the converter is invoked and succeeds
ConvertOk ==
    /\ pc = "saved"
    /\ export_pdf
    /\ docx2pdf_convert
    /\ LET pdf_path == PdfPath(output_path) IN
       /\ convert_calls' = Append(convert_calls, <<output_path, pdf_path>>)
       /\ disk' = (pdf_path :> PdfFile(disk[output_path])) @@ disk
       /\ result' = [kind |-> "tuple", value |-> <<output_path, pdf_path>>]
    /\ pc' = "returned"
    /\ Step("convert", "ok")
    /\ UNCHANGED <<case_info, output_path, export_pdf, Document,
                   docx2pdf_convert, doc, error>>

ConvertRaises_RollsBack ==
    /\ pc = "saved"
    /\ export_pdf
    /\ docx2pdf_convert
    /\ convert_calls' = Append(convert_calls, <<output_path, PdfPath(output_path)>>)
    /\ disk' = <<>>
    /\ Raise("ConversionError")
    /\ Step("convert", "raise")
    /\ UNCHANGED <<case_info, output_path, export_pdf, Document,
                   docx2pdf_convert, doc>>

\* lines 152-153: the converter is invoked and raises; whether it leaves a
\* partial target file behind is the converter's business
ConvertRaises ==
    /\ pc = "saved"
    /\ export_pdf
    /\ docx2pdf_convert
    /\ LET pdf_path == PdfPath(output_path) IN
       /\ convert_calls' = Append(convert_calls, <<output_path, pdf_path>>)
       /\ \E partial \in BOOLEAN :
            disk' = IF partial THEN (pdf_path :> PdfFile("partial")) @@ disk
                               ELSE disk
    /\ Raise("ConversionError")
    /\ Step("convert", "raise")
    /\ UNCHANGED <<case_info, output_path, export_pdf, Document,
                   docx2pdf_convert, doc>>

Next ==
    \/ Construct
    \/ ConstructRaises
    \/ Build
    \/ Save
    \/ SaveRaises
    \/ ReturnDocx
    \/ ExportPdfMissing
    \/ ConvertOk
    \/ ConvertRaises

Spec == Init /\ [][Next]_vars

----------------------------------------------------------------------------
(* Properties.                                                             *)

\* build() has run to its end on the draft of a fresh generator
BuildReturned == Len(trace) >= 2 /\ trace[2] = <<"build", "ok">>

\* build() has run and raised
BuildRaised == Len(trace) >= 2 /\ trace[2] = <<"build", "raise">>

FieldOrEmpty(key) == IF key \in DOMAIN case_info THEN case_info[key] ELSE ""
ListOrEmpty(key) == IF key \in DOMAIN case_info THEN case_info[key] ELSE <<>>

NLaws == Len(ListOrEmpty("laws"))
NEvidence == Len(ListOrEmpty("evidence"))

\* positions of the four section headers in a completed draft
ClaimsHeaderAt == 1 + 3 + 1
FactsHeaderAt == ClaimsHeaderAt + 2
LawsHeaderAt == FactsHeaderAt + 2
EvidenceHeaderAt == LawsHeaderAt + NLaws + 1

\* C1: one build() on a fresh generator appends, in this order: the level-1
\* heading; the paragraphs "案號：" + case_number, "當事人：" + parties,
\* "法院：" + court (empty string for an absent field); then the headers
\* "壹、訴之聲明", "貳、事實與理由", "參、法律依據", "肆、證據目錄", each
\* immediately followed by its own section's content and nothing else.
C1_BuildOrder ==
    BuildReturned =>
        /\ Len(doc) = 4 + 2 + 2 + (1 + NLaws) + (1 + NEvidence)
        /\ doc[1].kind = "heading" /\ doc[1].level = 1
        /\ \A i \in 2..Len(doc) : doc[i].kind = "paragraph"
        /\ doc[2].text = "AnHao:" \o FieldOrEmpty("case_number")
        /\ doc[3].text = "DangShiRen:" \o FieldOrEmpty("parties")
        /\ doc[4].text = "FaYuan:" \o FieldOrEmpty("court")
        /\ doc[ClaimsHeaderAt].text = "Yi,SuZhiShengMing"
        /\ doc[ClaimsHeaderAt + 1].text = FieldOrEmpty("claims")
        /\ doc[FactsHeaderAt].text = "Er,ShiShiYuLiYou"
        /\ doc[FactsHeaderAt + 1].text = FieldOrEmpty("facts")
        /\ doc[LawsHeaderAt].text = "San,FaLvYiJu"
        /\ \A i \in 1..NLaws :
              doc[LawsHeaderAt + i].text = "* " \o case_info["laws"][i]
        /\ doc[EvidenceHeaderAt].text = "Si,ZhengJuMuLu"
        /\ \A i \in 1..NEvidence :
              doc[EvidenceHeaderAt + i].text =
                  "[" \o case_info["evidence"][i]["id"] \o "]"
                      \o case_info["evidence"][i]["summary"]

C1_Witness ==
    /\ pc = "built"
    /\ case_info = sample_case
    /\ doc[4].text = "FaYuan:Taipei"
    /\ doc[EvidenceHeaderAt + 2].text = "[B2]receipt"

\* C2 as stated: the heading text is filing_type if filing_type is present,
\* else title if title is present, else "起訴狀"; with both present the
\* heading is filing_type.
C2_HeadingByPresence ==
    BuildReturned =>
        doc[1].text = IF "filing_type" \in DOMAIN case_info
                        THEN case_info["filing_type"]
                      ELSE IF "title" \in DOMAIN case_info
                        THEN case_info["title"]
                      ELSE "QiSuZhuang"

\* C2 amended: the heading text is filing_type if filing_type is present and
\* not the empty string, else title if title is present and not the empty
\* string, else "起訴狀"; with both present and filing_type non-empty the
\* heading is filing_type.
C2_HeadingByNonEmpty ==
    BuildReturned =>
        doc[1].text = IF FieldOrEmpty("filing_type") # ""
                        THEN case_info["filing_type"]
                      ELSE IF FieldOrEmpty("title") # ""
                        THEN case_info["title"]
                      ELSE "QiSuZhuang"

C2_Witness ==
    /\ BuildReturned
    /\ {"filing_type", "title"} \subseteq DOMAIN case_info
    /\ case_info["filing_type"] = ""
    /\ case_info["title"] = "MyTitle"
    /\ doc[1].text = "MyTitle"

AllAbsent == DOMAIN case_info = {}

\* the paragraphs of the draft that are one of the given texts, in draft order
RECURSIVE Matching(_, _)
Matching(blocks, texts) ==
    IF blocks = <<>> THEN <<>>
    ELSE IF Head(blocks).kind = "paragraph" /\ Head(blocks).text \in texts
         THEN <<Head(blocks).text>> \o Matching(Tail(blocks), texts)
         ELSE Matching(Tail(blocks), texts)

FiveHeaders ==
    << "Yi,SuZhiShengMing", "Er,ShiShiYuLiYou", "San,FaLvYiJu",
       "Si,ZhengJuMuLu", "Wu,FuJian" >>

FourHeaders == SubSeq(FiveHeaders, 1, 4)

Range(f) == {f[i] : i \in DOMAIN f}

\* C3 as stated: with every optional field absent build() raises nothing and
\* the document has the heading "起訴狀", five section headers in fixed order,
\* and empty content for claims and facts.
C3_AllAbsentFiveHeaders ==
    AllAbsent =>
        /\ ~BuildRaised
        /\ BuildReturned =>
              /\ doc[1] = [kind |-> "heading", level |-> 1, text |-> "QiSuZhuang"]
              /\ Matching(doc, Range(FiveHeaders)) = FiveHeaders
              /\ doc[ClaimsHeaderAt + 1].text = ""
              /\ doc[FactsHeaderAt + 1].text = ""

\* C3 amended: with every optional field absent build() raises nothing and
\* the document has the heading "起訴狀", the four section headers 壹、訴之聲明,
\* 貳、事實與理由, 參、法律依據, 肆、證據目錄 in that order (no 附件 header),
\* and empty content for claims and facts.
C3_AllAbsentFourHeaders ==
    AllAbsent =>
        /\ ~BuildRaised
        /\ BuildReturned =>
              /\ doc[1] = [kind |-> "heading", level |-> 1, text |-> "QiSuZhuang"]
              /\ Matching(doc, Range(FiveHeaders)) = FourHeaders
              /\ doc[ClaimsHeaderAt + 1].text = ""
              /\ doc[FactsHeaderAt + 1].text = ""

C3_Witness == AllAbsent /\ pc = "built" /\ Len(doc) = 10

\* the first position from `from` on at which the draft holds a paragraph
\* with the given text; 0 when there is none
FirstAt(text, from) ==
    LET hits == {i \in from..Len(doc) :
                    doc[i].kind = "paragraph" /\ doc[i].text = text} IN
    IF hits = {} THEN 0 ELSE CHOOSE i \in hits : \A j \in hits : i <= j

LawsHeaderFound == FirstAt("San,FaLvYiJu", 1)
EvidenceHeaderFound == FirstAt("Si,ZhengJuMuLu", LawsHeaderFound + 1)

\* C4: for a laws sequence of length N >= 0, the paragraphs between the
\* "參、法律依據" header and the next section header "肆、證據目錄" are exactly
\* N, the i-th being "• " followed by the i-th law; the header is there also
\* when N = 0.
C4_LawsBullets ==
    BuildReturned =>
        /\ LawsHeaderFound > 0
        /\ EvidenceHeaderFound > LawsHeaderFound
        /\ EvidenceHeaderFound - LawsHeaderFound - 1 = NLaws
        /\ \A i \in 1..NLaws :
              doc[LawsHeaderFound + i] = Paragraph("* " \o case_info["laws"][i])

C4_Witness ==
    /\ pc = "built"
    /\ "laws" \in DOMAIN case_info
    /\ case_info["laws"] = <<"law17", "law184">>
    /\ doc[LawsHeaderFound + 1].text = "* law17"
    /\ doc[LawsHeaderFound + 2].text = "* law184"

WellFormedEvidence ==
    \A i \in 1..NEvidence :
        DOMAIN case_info["evidence"][i] = {"id", "summary"}

\* C5: for an evidence sequence, build() completes and the paragraphs after
\* the "肆、證據目錄" header are exactly one per entry, in input order, the
\* i-th being "【" + id_i + "】" + summary_i.
C5_EvidenceParagraphs ==
    WellFormedEvidence =>
        /\ ~BuildRaised
        /\ BuildReturned =>
              /\ EvidenceHeaderFound > 0
              /\ Len(doc) - EvidenceHeaderFound = NEvidence
              /\ \A i \in 1..NEvidence :
                    doc[EvidenceHeaderFound + i] =
                        Paragraph("[" \o case_info["evidence"][i]["id"] \o "]"
                                      \o case_info["evidence"][i]["summary"])

C5_Witness ==
    /\ pc = "built"
    /\ "evidence" \in DOMAIN case_info
    /\ case_info["evidence"] = << [id |-> "B2", summary |-> "receipt"],
                                  [id |-> "B1", summary |-> "chat"] >>
    /\ SubSeq(doc, Len(doc) - 1, Len(doc)) =
          << Paragraph("[B2]receipt"), Paragraph("[B1]chat") >>

AttachmentsHeaderFound == FirstAt("Wu,FuJian", 1)

\* C6: the built document has an "附件" section if and only if the record's
\* attachments sequence is non-empty; when present it holds one paragraph
\* "【id】description" per attachment, count and order as in the input.
C6_AttachmentsSection ==
    BuildReturned =>
        LET attachments == ListOrEmpty("attachments") IN
        /\ (AttachmentsHeaderFound > 0) <=> (attachments # <<>>)
        /\ attachments # <<>> =>
              /\ Len(doc) - AttachmentsHeaderFound = Len(attachments)
              /\ \A i \in 1..Len(attachments) :
                    doc[AttachmentsHeaderFound + i] =
                        Paragraph("[" \o attachments[i]["id"] \o "]"
                                      \o attachments[i]["description"])

\* Where the extension of a path starts: at the last "." of its file name
\* (the part after the last "/"); 0 when the file name has no ".".  A file
\* name that starts with "." (".profile") can be read either way, as all
\* extension or as having none (os.path.splitext): leadingDotCounts selects
\* the reading.
ExtensionAt(path, leadingDotCounts) ==
    LET start == Len(path) - Len(FileName(path)) + 1
        dots == {i \in start..Len(path) :
                    /\ path[i] = "."
                    /\ leadingDotCounts \/ \E k \in start..(i - 1) : path[k] # "."}
    IN  IF dots = {} THEN 0 ELSE CHOOSE i \in dots : \A j \in dots : j <= i

WithPdfExtension(path, leadingDotCounts) ==
    LET at == ExtensionAt(path, leadingDotCounts) IN
    (IF at = 0 THEN path ELSE SubSeq(path, 1, at - 1)) \o <<".", "p", "d", "f">>

\* C7: with export_pdf=True and a successful conversion the call returns
\* (output_path, output_path with its extension replaced by ".pdf"), for
\* every output_path (no extension, several dots, a dot in the directory
\* part), and the converter is invoked with exactly that pair.
C7_PdfPathReplacesExtension ==
    (pc = "returned" /\ export_pdf) =>
        \E reading \in BOOLEAN :
            LET pair == <<output_path, WithPdfExtension(output_path, reading)>> IN
            /\ result = [kind |-> "tuple", value |-> pair]
            /\ convert_calls = <<pair>>

PdfFilesOnDisk == {f \in DOMAIN disk : disk[f].kind = "pdf"}

ConverterMissing == export_pdf /\ ~docx2pdf_convert

DependencyMissing ==
    {"RuntimeError: python-docx is required", "RuntimeError: docx2pdf is required"}

LastStep == trace[Len(trace)]

\* C8 as stated, for well-typed records: if docx2pdf is unavailable and
\* export_pdf=True, the call fails with the dependency-missing error, returns
\* no value, never invokes a converter, and creates no PDF file.
C8_MissingConverterAlwaysDependencyError ==
    (ConverterMissing /\ WellFormedEvidence) =>
        /\ pc # "returned"
        /\ pc = "raised" => error \in DependencyMissing
        /\ result = NoResult
        /\ convert_calls = <<>>
        /\ PdfFilesOnDisk = {}

\* C8 amended: if docx2pdf is unavailable and export_pdf=True, the call
\* fails, returns no value, never invokes a converter, and creates no PDF
\* file; the error is the docx2pdf dependency-missing error when
\* construction, build and save succeeded, and otherwise the error of the
\* earlier step that failed.
C8_MissingConverterFails ==
    ConverterMissing =>
        /\ pc # "returned"
        /\ ~ENABLED Next => pc = "raised"
        /\ pc = "raised" =>
              error = CASE LastStep[1] = "construct" ->
                               "RuntimeError: python-docx is required"
                        [] LastStep[1] = "build" -> "KeyError"
                        [] LastStep[1] = "save" -> "OSError"
                        [] LastStep[1] = "convert" ->
                               "RuntimeError: docx2pdf is required"
        /\ (pc = "raised" /\ <<"save", "ok">> \in Range(trace)) =>
              error = "RuntimeError: docx2pdf is required"
        /\ result = NoResult
        /\ convert_calls = <<>>
        /\ PdfFilesOnDisk = {}

C8_Witness ==
    /\ ConverterMissing
    /\ pc = "raised"
    /\ error = "RuntimeError: docx2pdf is required"
    /\ output_path \in DOMAIN disk
    /\ convert_calls = <<>>

FailedAtConversion == pc = "raised" /\ LastStep = <<"convert", "raise">>

\* C9: whenever the call fails at the conversion step (converter
\* unavailable, or invoked and raising), the document has been fully written
\* to output_path and is still on disk, and the error raised there is the
\* one that reaches the caller.
C9_DocxKeptOnConversionFailure ==
    FailedAtConversion =>
        /\ BuildReturned
        /\ output_path \in DOMAIN disk
        /\ disk[output_path] = DocxFile(doc)
        /\ error = IF convert_calls = <<>>
                     THEN "RuntimeError: docx2pdf is required"
                     ELSE "ConversionError"

C9_Witness ==
    /\ FailedAtConversion
    /\ convert_calls # <<>>
    /\ error = "ConversionError"
    /\ disk[output_path] = DocxFile(doc)
    /\ PdfFilesOnDisk # {}

StepOrder == <<"construct", "build", "save", "convert">>

\* C10: in every run the steps construct, build, save, conversion occur at
\* most once each and in that order; conversion is attempted only with
\* export_pdf true and after save succeeded; a failing step ends the call:
\* no later step, no retry, no path returned; with export_pdf false the
\* converter is never invoked and the result is output_path alone.
C10_LinearNoRetry ==
    /\ Len(trace) <= Len(StepOrder)
    /\ \A i \in 1..Len(trace) : trace[i][1] = StepOrder[i]
    /\ \A i \in 1..(Len(trace) - 1) : trace[i][2] = "ok"
    /\ (trace # <<>> /\ LastStep[2] = "raise") <=> pc = "raised"
    /\ pc = "raised" =>
          /\ ~ENABLED Next
          /\ result = NoResult
          /\ error # NoError
    /\ pc # "raised" => error = NoError
    /\ Len(trace) = 4 => export_pdf /\ output_path \in DOMAIN disk
    /\ Len(convert_calls) <= 1
    /\ convert_calls # <<>> => docx2pdf_convert /\ Len(trace) = 4
    /\ pc # "returned" => result = NoResult
    /\ pc = "returned" =>
          /\ ~ENABLED Next
          /\ \A i \in 1..Len(trace) : trace[i][2] = "ok"
          /\ Len(trace) = IF export_pdf THEN 4 ELSE 3
          /\ result.kind = IF export_pdf THEN "tuple" ELSE "str"
    /\ ~export_pdf =>
          /\ convert_calls = <<>>
          /\ pc = "returned" => result = [kind |-> "str", value |-> output_path]

C10_Witness ==
    /\ pc = "raised"
    /\ trace = << <<"construct", "ok">>, <<"build", "ok">>, <<"save", "raise">> >>
    /\ export_pdf
    /\ docx2pdf_convert

====
